---- MODULE Spec2Model ----
(*************************************************************************)
(* CRC-32C (Castagnoli) checksum engine of src/src/crc32c.cc.            *)
(*                                                                       *)
(* A 32-bit value (uint32_t) is the tuple of its four bytes, least       *)
(* significant byte first; a 64-bit value (uint64_t) is the tuple of its *)
(* eight bytes, least significant byte first.  A GF(2) matrix is a       *)
(* function from the row index 0..31 to a 32-bit value.  Addresses and   *)
(* lengths (uintptr_t, size_t) are integers.                             *)
(*************************************************************************)
EXTENDS Integers, Sequences, FiniteSets, TLC

-----------------------------------------------------------------------------
(* Machine arithmetic on bytes and words.                                *)

RECURSIVE BitXor(_, _, _)
BitXor(a, b, n) ==
    IF n = 0 THEN 0
    ELSE ((a + b) % 2) + 2 * BitXor(a \div 2, b \div 2, n - 1)

\* a ^ b on two bytes, tabulated once
XorTab == [a \in 0..255 |-> [b \in 0..255 |-> BitXor(a, b, 8)]]

U8  == 0..255
U32 == U8 \X U8 \X U8 \X U8
U64 == U8 \X U8 \X U8 \X U8 \X U8 \X U8 \X U8 \X U8

Zero32 == <<0, 0, 0, 0>>
Zero64 == <<0, 0, 0, 0, 0, 0, 0, 0>>

\* x ^ y on uint32_t
Xor32(x, y) ==
    <<XorTab[x[1]][y[1]], XorTab[x[2]][y[2]],
      XorTab[x[3]][y[3]], XorTab[x[4]][y[4]]>>

\* x ^ y on uint64_t
Xor64(x, y) ==
    <<XorTab[x[1]][y[1]], XorTab[x[2]][y[2]],
      XorTab[x[3]][y[3]], XorTab[x[4]][y[4]],
      XorTab[x[5]][y[5]], XorTab[x[6]][y[6]],
      XorTab[x[7]][y[7]], XorTab[x[8]][y[8]]>>

\* ~x on uint32_t
Not32(x) == <<255 - x[1], 255 - x[2], 255 - x[3], 255 - x[4]>>

\* x >> 1 on uint32_t
Shr1(x) ==
    <<(x[1] \div 2) + 128 * (x[2] % 2), (x[2] \div 2) + 128 * (x[3] % 2),
      (x[3] \div 2) + 128 * (x[4] % 2), x[4] \div 2>>

\* x >> 8 on uint32_t and on uint64_t
Shr8(x) == <<x[2], x[3], x[4], 0>>
Shr8_64(x) == <<x[2], x[3], x[4], x[5], x[6], x[7], x[8], 0>>

\* static_cast<uint64_t>(x) of a uint32_t, static_cast<uint32_t>(x) of a uint64_t
ToU64(x) == <<x[1], x[2], x[3], x[4], 0, 0, 0, 0>>
ToU32(x) == <<x[1], x[2], x[3], x[4]>>

\* the uint32_t with only bit n set (1 << n), n in 0..31
RECURSIVE Pow2(_)
Pow2(n) == IF n = 0 THEN 1 ELSE 2 * Pow2(n - 1)
Bit32(n) == [i \in 1..4 |-> IF i = (n \div 8) + 1 THEN Pow2(n % 8) ELSE 0]

-----------------------------------------------------------------------------
(* Constants of crc32c.cc.                                               *)

\* the reversed CRC-32 (IEEE 802.3) polynomial 0xEDB88320 in its place
CRC32_IEEE_POLYNOMIAL_REV == <<32, 131, 184, 237>>

\* 0x82F63B78
CRC32C_POLYNOMIAL_REV == <<120, 59, 246, 130>>
ALIGN64_MASK == 7
TABLE_X == 8
TABLE_Y == 256
SHIFT_TABLE_X == 4
SHIFT_TABLE_Y == 256
LONG_BLOCK == 8192
SHORT_BLOCK == 256

-----------------------------------------------------------------------------
(* GF(2) algebra: crc32c.cc lines 101-169.                               *)

\* a 32x32 matrix over GF(2): rows 0..31, each a uint32_t
Mat == [0..31 -> U32]

\* the while loop of gf2_matrix_times: the sum of the rows of mat selected by
\* the set bits of vec, from row n on, added to "sum"; stops when vec is zero
gf2_matrix_times_loop[mat \in Mat, vec \in U32, n \in 0..32, sum \in U32] ==
    IF vec = Zero32 THEN sum
    ELSE gf2_matrix_times_loop[mat, Shr1(vec), n + 1,
                               IF vec[1] % 2 = 1 THEN Xor32(sum, mat[n])
                               ELSE sum]

gf2_matrix_times(mat, vec) == gf2_matrix_times_loop[mat, vec, 0, Zero32]

\* gf2_matrix_square: square[n] = mat * mat[n]
SquareOf[mat \in Mat] == [n \in 0..31 |-> gf2_matrix_times(mat, mat[n])]

gf2_matrix_square(mat) == SquareOf[mat]

\* the operator for one zero bit: row 0 is the polynomial, row n is 1 << (n-1)
OneZeroBitOp ==
    [n \in 0..31 |-> IF n = 0 THEN CRC32C_POLYNOMIAL_REV
                     ELSE <<Bit32(n - 1)[1], Bit32(n - 1)[2],
                            Bit32(n - 1)[3], Bit32(n - 1)[4]>>]

\* the do-while loop of crc32c_zeros_op, entered with odd and len
crc32c_zeros_op_loop[odd \in Mat, len \in Nat] ==
    LET even == gf2_matrix_square(odd)
        len1 == len \div 2
    IN  IF len1 = 0 THEN even
        ELSE LET odd2 == gf2_matrix_square(even)
                 len2 == len1 \div 2
             IN  IF len2 > 0 THEN crc32c_zeros_op_loop[odd2, len2]
                 ELSE odd2

\* a crc32c_zeros_op that returns the identity (no byte appended) for len 0
crc32c_zeros_op_ExactZero(len) ==
    IF len = 0
    THEN [n \in 0..31 |-> <<Bit32(n)[1], Bit32(n)[2], Bit32(n)[3], Bit32(n)[4]>>]
    ELSE crc32c_zeros_op_loop[gf2_matrix_square(gf2_matrix_square(OneZeroBitOp)), len]

\* crc32c_zeros_op without "put operator for four zero bits in odd"
crc32c_zeros_op_OneSquare(len) ==
    LET odd  == OneZeroBitOp
        even == gf2_matrix_square(odd)
    IN  crc32c_zeros_op_loop[even, len]

\* crc32c_zeros_op: the matrix left in "even" on return
crc32c_zeros_op(len) ==
    LET odd  == OneZeroBitOp
        even == gf2_matrix_square(odd)
        odd4 == gf2_matrix_square(even)
    IN  crc32c_zeros_op_loop[odd4, len]

-----------------------------------------------------------------------------
(* Table construction: crc32c.cc lines 171-190 and 524-546.              *)

\* the four byte-indexed tables of an operator: zeros[k][n] = op * (n << 8k)
ShiftTableOf[op \in Mat] ==
    [k \in 0..(SHIFT_TABLE_X - 1) |->
        [n \in 0..(SHIFT_TABLE_Y - 1) |->
            gf2_matrix_times(op, <<IF k = 0 THEN n ELSE 0, IF k = 1 THEN n ELSE 0,
                                   IF k = 2 THEN n ELSE 0, IF k = 3 THEN n ELSE 0>>)]]

crc32c_zeros(len) == ShiftTableOf[crc32c_zeros_op(len)]

\* crc32c_shift indexing tables 1 and 2 by each other's byte
crc32c_shift_BytesSwapped(zeros, crc) ==
    Xor32(Xor32(zeros[0][crc[1]], zeros[1][crc[3]]),
          Xor32(zeros[2][crc[2]], zeros[3][crc[4]]))

\* crc32c_shift: apply a shift table to a uint32_t
crc32c_shift(zeros, crc) ==
    Xor32(Xor32(zeros[0][crc[1]], zeros[1][crc[2]]),
          Xor32(zeros[2][crc[3]], zeros[3][crc[4]]))

\* the inner loop of setup_tables' first loop: jj steps of
\* crc = crc & 1 ? (crc >> 1) ^ CRC32C_POLYNOMIAL_REV : crc >> 1
RECURSIVE TableBits(_, _)
TableBits(crc, jj) ==
    IF jj = 0 THEN crc
    ELSE TableBits(IF crc[1] % 2 = 1
                   THEN Xor32(Shr1(crc), CRC32C_POLYNOMIAL_REV)
                   ELSE Shr1(crc), jj - 1)

\* crc32c_sw_lookup_table[0]
LookupRow0 == [ii \in 0..(TABLE_Y - 1) |-> TableBits(<<ii, 0, 0, 0>>, TABLE_X)]

\* crc32c_sw_lookup_table[jj] from crc32c_sw_lookup_table[jj-1]
LookupNextRow(prev) ==
    [ii \in 0..(TABLE_Y - 1) |-> Xor32(LookupRow0[prev[ii][1]], Shr8(prev[ii]))]

RECURSIVE LookupRows(_, _)
LookupRows(rows, jj) ==
    IF jj = TABLE_X THEN rows
    ELSE LookupRows(Append(rows, LookupNextRow(rows[jj])), jj + 1)

\* the tables as setup_tables leaves them
BuiltLookupRows == LookupRows(<<LookupRow0>>, 1)
crc32c_sw_lookup_table == [jj \in 0..(TABLE_X - 1) |-> BuiltLookupRows[jj + 1]]
crc32c_long == crc32c_zeros(LONG_BLOCK)
crc32c_short == crc32c_zeros(SHORT_BLOCK)

\* a shift table before setup_tables has filled it (zero-initialised static)
ZeroShiftTable ==
    [k \in 0..(SHIFT_TABLE_X - 1) |-> [n \in 0..(SHIFT_TABLE_Y - 1) |-> Zero32]]

-----------------------------------------------------------------------------
(* The SSE4.2 instructions used by the hardware engine (the intrinsics   *)
(* _mm_crc32_u8 and _mm_crc32_u64): one byte, or eight little-endian     *)
(* bytes, folded into the low 32 bits of the accumulator, bit by bit.    *)

\* the polynomial wired into the crc32 instruction, bit-reflected: 0x82F63B78
SSE42_POLY == <<120, 59, 246, 130>>

Crc32BitStep[s \in U32] ==
    IF s[1] % 2 = 1 THEN Xor32(Shr1(s), SSE42_POLY) ELSE Shr1(s)

Crc32Byte[s \in U32, b \in U8] ==
    Crc32BitStep[Crc32BitStep[Crc32BitStep[Crc32BitStep[
    Crc32BitStep[Crc32BitStep[Crc32BitStep[Crc32BitStep[
        <<XorTab[s[1]][b], s[2], s[3], s[4]>>]]]]]]]]

\* _mm_crc32_u8(crc, v): uint32_t
mm_crc32_u8(crc, v) == Crc32Byte[crc, v]

\* _mm_crc32_u64(crc, v): uint64_t whose upper half is zero
mm_crc32_u64(crc, v) ==
    ToU64(Crc32Byte[Crc32Byte[Crc32Byte[Crc32Byte[
          Crc32Byte[Crc32Byte[Crc32Byte[Crc32Byte[
              ToU32(crc), v[1]], v[2]], v[3]], v[4]], v[5]], v[6]], v[7]], v[8]])

-----------------------------------------------------------------------------
(* Program state.                                                        *)

VARIABLES
    stage,        \* how far setup_tables has filled the static tables:
                  \* 0 none, 1 crc32c_sw_lookup_table[0], 2 rows 1..7 too,
                  \* 3 crc32c_long too, 4 crc32c_short too
    tables_setup, \* the static bool of line 86
    safe_crc32c,  \* the static function pointer of line 579
    probes,       \* number of cpuid queries made so far
    cpu,          \* the executing CPU: [cpuid_ok, ecx]
    loader,       \* static initialisation: [todo, cur, pc]
    zeros_call,   \* a call of crc32c_zeros on its own: [pc, len, op, zeros,
                  \* vec, times, shifted]
    th            \* the threads: what each is executing, and its locals

vars == <<stage, tables_setup, safe_crc32c, probes, cpu, loader, zeros_call, th>>

\* a matrix not yet written
ZeroMat == [n \in 0..31 |-> Zero32]

\* no call of crc32c_zeros on its own is under way
NoZerosCall ==
    [pc |-> "none", len |-> 0, op |-> ZeroMat, zeros |-> ZeroShiftTable,
     vec |-> Zero32, times |-> Zero32, shifted |-> Zero32]

\* bit number of the SSE4.2 feature flag in ECX of cpuid leaf 1 (0x00100000)
SSE42 == 20

\* the tables as a call reads them in the current state
LookupTable(jj, ii) ==
    IF (jj = 0 /\ stage >= 1) \/ stage >= 2
    THEN crc32c_sw_lookup_table[jj][ii] ELSE Zero32
LongTable == IF stage >= 3 THEN crc32c_long ELSE ZeroShiftTable
ShortTable == IF stage >= 4 THEN crc32c_short ELSE ZeroShiftTable

-----------------------------------------------------------------------------
(* The caller's memory.  A buffer is described by a pattern p = <<m,q,a>> *)
(* giving its bytes by offset, and the address "base" of offset 0.       *)

Byte(p, i) == (p[1] * i + p[2] * (i \div 251) + p[3]) % 256

\* the descriptor of the call thread record c is executing
Desc(c) == c.script[c.ip]

\* *buf at address a
Mem(c, a) == Byte(Desc(c).pat, a - Desc(c).base)

\* *reinterpret_cast<const uint64_t*>(a): eight bytes, little-endian
Mem64(c, a) ==
    <<Mem(c, a), Mem(c, a + 1), Mem(c, a + 2), Mem(c, a + 3),
      Mem(c, a + 4), Mem(c, a + 5), Mem(c, a + 6), Mem(c, a + 7)>>

\* bookkeeping of the reads of a call: n bytes read at address a
\* (nread: bytes read so far; oob: some byte outside [buf, buf+len) was read;
\*  unal: some 8-byte read was not 8-byte aligned)
\* (a call also keeps "blocks": the widths of the 3-lane blocks it has
\*  combined so far, in order, one per application of a shift table pair)
\* (rd: the addresses read so far, as a set of intervals <<lo, hi>> meaning
\*  lo..hi-1, adjacent intervals joined; dup: some byte was read twice)
Reads(c, a, n) ==
    LET left  == {i \in c.rd : i[2] = a}
        right == {i \in c.rd : i[1] = a + n}
        lo == IF left = {} THEN a ELSE (CHOOSE i \in left : TRUE)[1]
        hi == IF right = {} THEN a + n ELSE (CHOOSE i \in right : TRUE)[2]
    IN  [c EXCEPT !.nread = @ + n,
                  !.oob = @ \/ a < Desc(c).base + Desc(c).off
                            \/ a + n > Desc(c).base + Desc(c).off + Desc(c).len,
                  !.unal = @ \/ (n = 8 /\ a % 8 # 0),
                  !.dup = @ \/ \E i \in c.rd : a < i[2] /\ i[1] < a + n,
                  !.rd = (c.rd \ (left \cup right)) \cup {<<lo, hi>>}]

-----------------------------------------------------------------------------
(* The per-byte and per-word folds of the two engines.                   *)

\* the byte fold without "^ (crc >> 8)"
sw_byte_NoShift(crc, b) == ToU64(LookupTable(0, XorTab[crc[1]][b]))

\* crc32c_sw_lookup_table[0][(crc ^ *buf) & 0xff] ^ (crc >> 8), crc a uint64_t
sw_byte(crc, b) ==
    Xor64(ToU64(LookupTable(0, XorTab[crc[1]][b])), Shr8_64(crc))

\* crc32c_sw_inner with the table rows in the wrong order (row k for byte k)
crc32c_sw_inner_RowOrder(crc, w) ==
    ToU64(Xor32(Xor32(Xor32(LookupTable(0, XorTab[crc[1]][w[1]]),
                            LookupTable(1, XorTab[crc[2]][w[2]])),
                      Xor32(LookupTable(2, XorTab[crc[3]][w[3]]),
                            LookupTable(3, XorTab[crc[4]][w[4]]))),
                Xor32(Xor32(LookupTable(4, XorTab[crc[5]][w[5]]),
                            LookupTable(5, XorTab[crc[6]][w[6]])),
                      Xor32(LookupTable(6, XorTab[crc[7]][w[7]]),
                            LookupTable(7, XorTab[crc[8]][w[8]])))))

\* crc32c_sw_inner(crc, buffer): crc ^= the word at buffer, then eight lookups
crc32c_sw_inner(crc, w) ==
    ToU64(Xor32(Xor32(Xor32(LookupTable(7, XorTab[crc[1]][w[1]]),
                            LookupTable(6, XorTab[crc[2]][w[2]])),
                      Xor32(LookupTable(5, XorTab[crc[3]][w[3]]),
                            LookupTable(4, XorTab[crc[4]][w[4]]))),
                Xor32(Xor32(LookupTable(3, XorTab[crc[5]][w[5]]),
                            LookupTable(2, XorTab[crc[6]][w[6]])),
                      Xor32(LookupTable(1, XorTab[crc[7]][w[7]]),
                            LookupTable(0, XorTab[crc[8]][w[8]])))))

\* crc = _mm_crc32_u8(static_cast<uint32_t>(crc), *buf)
hw_byte(crc, b) == ToU64(mm_crc32_u8(ToU32(crc), b))

\* crc = _mm_crc32_u64(crc, *reinterpret_cast<const uint64_t*>(buf))
hw_word(crc, w) == mm_crc32_u64(crc, w)

\* the byte fold and the word fold of engine e ("sw" or "hw")
FoldByte(e, crc, b) == IF e = "sw" THEN sw_byte(crc, b) ELSE hw_byte(crc, b)
FoldWord(e, crc, w) == IF e = "sw" THEN crc32c_sw_inner(crc, w) ELSE hw_word(crc, w)

-----------------------------------------------------------------------------
(* The loops shared by the six engine functions.  Each operator is one   *)
(* evaluation of a loop condition together with one run of the loop body *)
(* when the condition holds, on the locals of a call (a thread record c):*)
(* buf, len, crc, crc1, crc2, end.                                       *)

\* an alignment loop that steps over the leading bytes without folding them
AlignLoop_Skip(c, e, next) ==
    IF c.buf % (ALIGN64_MASK + 1) # 0 /\ c.len > 0
    THEN [Reads(c, c.buf, 1) EXCEPT !.buf = @ + 1, !.len = @ - 1]
    ELSE [c EXCEPT !.pc = next]

\* while ((buf & ALIGN64_MASK) != 0 && len > 0) { fold *buf; buf++; len--; }
AlignLoop(c, e, next) ==
    IF c.buf % (ALIGN64_MASK + 1) # 0 /\ c.len > 0
    THEN [Reads(c, c.buf, 1) EXCEPT !.crc = FoldByte(e, c.crc, Mem(c, c.buf)),
                                    !.buf = @ + 1, !.len = @ - 1]
    ELSE [c EXCEPT !.pc = next]

\* a word loop that runs while at least 7 bytes remain
WordLoop_OffByOne(c, e, next) ==
    IF c.len >= 7
    THEN [Reads(c, c.buf, 8) EXCEPT !.crc = FoldWord(e, c.crc, Mem64(c, c.buf)),
                                    !.buf = @ + 8, !.len = @ - 8]
    ELSE [c EXCEPT !.pc = next]

\* while (len >= sizeof(uint64_t)) { fold the word at buf; buf += 8; len -= 8; }
WordLoop(c, e, next) ==
    IF c.len >= 8
    THEN [Reads(c, c.buf, 8) EXCEPT !.crc = FoldWord(e, c.crc, Mem64(c, c.buf)),
                                    !.buf = @ + 8, !.len = @ - 8]
    ELSE [c EXCEPT !.pc = next]

\* while (len > 0) { fold *buf; buf++; len--; }
TailLoop(c, e, next) ==
    IF c.len > 0
    THEN [Reads(c, c.buf, 1) EXCEPT !.crc = FoldByte(e, c.crc, Mem(c, c.buf)),
                                    !.buf = @ + 1, !.len = @ - 1]
    ELSE [c EXCEPT !.pc = next]

\* a block loop entered only when more than 3 * W bytes remain
BlockLoop_Strict(c, W, lane, next) ==
    IF c.len > 3 * W
    THEN [c EXCEPT !.crc1 = Zero64, !.crc2 = Zero64, !.end = c.buf + W,
                   !.pc = lane]
    ELSE [c EXCEPT !.pc = next]

\* while (len >= 3 * W) { crc1 = 0; crc2 = 0; end = buf + W; do ...
BlockLoop(c, W, lane, next) ==
    IF c.len >= 3 * W
    THEN [c EXCEPT !.crc1 = Zero64, !.crc2 = Zero64, !.end = c.buf + W,
                   !.pc = lane]
    ELSE [c EXCEPT !.pc = next]

\* a lane loop that forgets "buf += 8"
LaneLoop_NoAdvance(c, W, e, comb) ==
    [Reads(Reads(Reads(c, c.buf, 8), c.buf + W, 8), c.buf + 2 * W, 8) EXCEPT
        !.crc  = FoldWord(e, c.crc,  Mem64(c, c.buf)),
        !.crc1 = FoldWord(e, c.crc1, Mem64(c, c.buf + W)),
        !.crc2 = FoldWord(e, c.crc2, Mem64(c, c.buf + 2 * W)),
        !.pc   = IF c.buf < c.end THEN @ ELSE comb]

\* do { fold one word into each of the three lanes; buf += 8; } while (buf < end);
LaneLoop(c, W, e, comb) ==
    [Reads(Reads(Reads(c, c.buf, 8), c.buf + W, 8), c.buf + 2 * W, 8) EXCEPT
        !.crc  = FoldWord(e, c.crc,  Mem64(c, c.buf)),
        !.crc1 = FoldWord(e, c.crc1, Mem64(c, c.buf + W)),
        !.crc2 = FoldWord(e, c.crc2, Mem64(c, c.buf + 2 * W)),
        !.buf  = @ + 8,
        !.pc   = IF c.buf + 8 < c.end THEN @ ELSE comb]

\* a combination that takes the lanes in the wrong order (crc2 before crc1)
Combine_LanesSwapped(c, zeros, W, head) ==
    LET crc02 == Xor64(ToU64(crc32c_shift(zeros, ToU32(c.crc))), c.crc2)
    IN  [c EXCEPT !.crc = Xor64(ToU64(crc32c_shift(zeros, ToU32(crc02))), c.crc1),
                  !.buf = @ + 2 * W, !.len = @ - 3 * W, !.pc = head,
                  !.blocks = Append(@, W)]

\* crc = crc32c_shift(zeros, (uint32_t)crc) ^ crc1;
\* crc = crc32c_shift(zeros, (uint32_t)crc) ^ crc2; buf += 2 * W; len -= 3 * W;
Combine(c, zeros, W, head) ==
    LET crc01 == Xor64(ToU64(crc32c_shift(zeros, ToU32(c.crc))), c.crc1)
    IN  [c EXCEPT !.crc = Xor64(ToU64(crc32c_shift(zeros, ToU32(crc01))), c.crc2),
                  !.buf = @ + 2 * W, !.len = @ - 3 * W, !.pc = head,
                  !.blocks = Append(@, W)]

\* locals initialised from crc_in itself, not from its complement
Prologue_NoComplement(c) ==
    [c EXCEPT !.crc = ToU64(c.crc_in), !.crc1 = Zero64, !.crc2 = Zero64,
              !.pc = "align"]

\* uint64_t crc = static_cast<uint64_t>(~crc_in), crc1 = 0, crc2 = 0;
Prologue(c) ==
    [c EXCEPT !.crc = ToU64(Not32(c.crc_in)), !.crc1 = Zero64, !.crc2 = Zero64,
              !.pc = "align"]

\* a return that forgets the final complement
Return_NoComplement(c) ==
    [c EXCEPT !.res = Append(@, ToU32(c.crc)),
              !.fn = "none", !.pc = "call", !.ip = @ + 1]

\* return static_cast<uint32_t>(crc ^ std::numeric_limits<uint32_t>::max());
\* the value goes to the caller, who moves on to its next call
Return(c) ==
    [c EXCEPT !.res = Append(@, ToU32(Xor64(c.crc, <<255, 255, 255, 255, 0, 0, 0, 0>>))),
              !.fn = "none", !.pc = "call", !.ip = @ + 1]

-----------------------------------------------------------------------------
(* The six engine functions, one step at a time.                         *)

crc32c_sw_1way(c) ==
    CASE c.pc = "entry" -> Prologue(c)
      [] c.pc = "align" -> AlignLoop(c, "sw", "words")
      [] c.pc = "words" -> WordLoop(c, "sw", "tail")
      [] c.pc = "tail"  -> TailLoop(c, "sw", "ret")
      [] c.pc = "ret"   -> Return(c)

crc32c_sw_short_block(c) ==
    CASE c.pc = "entry" ->
            IF c.len < 3 * SHORT_BLOCK
            THEN [c EXCEPT !.fn = "crc32c_sw_1way"]
            ELSE Prologue(c)
      [] c.pc = "align" -> AlignLoop(c, "sw", "short")
      [] c.pc = "short" -> BlockLoop(c, SHORT_BLOCK, "short_lane", "words")
      [] c.pc = "short_lane" -> LaneLoop(c, SHORT_BLOCK, "sw", "short_comb")
      [] c.pc = "short_comb" -> Combine(c, ShortTable, SHORT_BLOCK, "short")
      [] c.pc = "words" -> WordLoop(c, "sw", "tail")
      [] c.pc = "tail"  -> TailLoop(c, "sw", "ret")
      [] c.pc = "ret"   -> Return(c)

crc32c_sw(c) ==
    CASE c.pc = "entry" ->
            IF c.len < 3 * LONG_BLOCK
            THEN [c EXCEPT !.fn = "crc32c_sw_short_block"]
            ELSE Prologue(c)
      [] c.pc = "align" -> AlignLoop(c, "sw", "long")
      [] c.pc = "long"  -> BlockLoop(c, LONG_BLOCK, "long_lane", "short")
      [] c.pc = "long_lane" -> LaneLoop(c, LONG_BLOCK, "sw", "long_comb")
      [] c.pc = "long_comb" -> Combine(c, LongTable, LONG_BLOCK, "long")
      [] c.pc = "short" -> BlockLoop(c, SHORT_BLOCK, "short_lane", "words")
      [] c.pc = "short_lane" -> LaneLoop(c, SHORT_BLOCK, "sw", "short_comb")
      [] c.pc = "short_comb" -> Combine(c, ShortTable, SHORT_BLOCK, "short")
      [] c.pc = "words" -> WordLoop(c, "sw", "tail")
      [] c.pc = "tail"  -> TailLoop(c, "sw", "ret")
      [] c.pc = "ret"   -> Return(c)

\* a hardware 1-way engine without the alignment loop
crc32c_hw_1way_NoAlign(c) ==
    CASE c.pc = "entry" -> [Prologue(c) EXCEPT !.pc = "words"]
      [] c.pc = "words" -> WordLoop(c, "hw", "tail")
      [] c.pc = "tail"  -> TailLoop(c, "hw", "ret")
      [] c.pc = "ret"   -> Return(c)

crc32c_hw_1way(c) ==
    CASE c.pc = "entry" -> Prologue(c)
      [] c.pc = "align" -> AlignLoop(c, "hw", "words")
      [] c.pc = "words" -> WordLoop(c, "hw", "tail")
      [] c.pc = "tail"  -> TailLoop(c, "hw", "ret")
      [] c.pc = "ret"   -> Return(c)

crc32c_hw_short_block(c) ==
    CASE c.pc = "entry" ->
            IF c.len < 3 * SHORT_BLOCK
            THEN [c EXCEPT !.fn = "crc32c_hw_1way"]
            ELSE Prologue(c)
      [] c.pc = "align" -> AlignLoop(c, "hw", "short")
      [] c.pc = "short" -> BlockLoop(c, SHORT_BLOCK, "short_lane", "words")
      [] c.pc = "short_lane" -> LaneLoop(c, SHORT_BLOCK, "hw", "short_comb")
      [] c.pc = "short_comb" -> Combine(c, ShortTable, SHORT_BLOCK, "short")
      [] c.pc = "words" -> WordLoop(c, "hw", "tail")
      [] c.pc = "tail"  -> TailLoop(c, "hw", "ret")
      [] c.pc = "ret"   -> Return(c)

crc32c_hw(c) ==
    CASE c.pc = "entry" ->
            IF c.len < 3 * LONG_BLOCK
            THEN [c EXCEPT !.fn = "crc32c_hw_short_block"]
            ELSE Prologue(c)
      [] c.pc = "align" -> AlignLoop(c, "hw", "long")
      [] c.pc = "long"  -> BlockLoop(c, LONG_BLOCK, "long_lane", "short")
      [] c.pc = "long_lane" -> LaneLoop(c, LONG_BLOCK, "hw", "long_comb")
      [] c.pc = "long_comb" -> Combine(c, LongTable, LONG_BLOCK, "long")
      [] c.pc = "short" -> BlockLoop(c, SHORT_BLOCK, "short_lane", "words")
      [] c.pc = "short_lane" -> LaneLoop(c, SHORT_BLOCK, "hw", "short_comb")
      [] c.pc = "short_comb" -> Combine(c, ShortTable, SHORT_BLOCK, "short")
      [] c.pc = "words" -> WordLoop(c, "hw", "tail")
      [] c.pc = "tail"  -> TailLoop(c, "hw", "ret")
      [] c.pc = "ret"   -> Return(c)

\* the public crc32c of line 586: return safe_crc32c(buf, len, crc_in);
\* a call through the zero-initialised (null) pointer ends the process
crc32c(c) ==
    IF safe_crc32c = "null" THEN [c EXCEPT !.pc = "crashed"]
    ELSE [c EXCEPT !.fn = safe_crc32c]

-----------------------------------------------------------------------------
(* Bounds of the model.                                                  *)

\* calls of every length 0..MaxSmallLen are made at every alignment
MaxSmallLen == 17
\* lengths within Slack of 3*SHORT_BLOCK and of 3*LONG_BLOCK are called
Slack == 1
\* number of threads calling concurrently
NumThreads == 2

Threads == 0..NumThreads

-----------------------------------------------------------------------------
(* Threads.  A thread makes the calls of its script, one after another;  *)
(* a call descriptor is [fn, pat, base, off, len, seed, chain]: the      *)
(* function called, the buffer (pattern and address of offset 0), the    *)
(* offset of the first byte passed, the length passed, and the seed: the *)
(* given one, or with chain the result of the thread's previous call.    *)
(* Thread 0 is a load-time initialiser of another translation unit.      *)

Idle ==
    [fn |-> "none", pc |-> "call", ip |-> 1, script |-> <<>>, res |-> <<>>,
     buf |-> 0, len |-> 0, crc_in |-> Zero32,
     crc |-> Zero64, crc1 |-> Zero64, crc2 |-> Zero64, end |-> 0,
     nread |-> 0, oob |-> FALSE, unal |-> FALSE, blocks |-> <<>>,
     rd |-> {}, dup |-> FALSE]

Finished(c) == c.fn = "none" /\ c.ip > Len(c.script)

\* the process is alive: no call has jumped through a null pointer or
\* executed an instruction the CPU does not have
Alive == \A t \in Threads : th[t].pc # "crashed"

\* thread 0 runs while the loader runs its initialiser; the others run
\* once static initialisation is over
Runnable(t) ==
    /\ Alive
    /\ IF t = 0 THEN loader.cur = "other"
       ELSE loader.cur = "none" /\ loader.todo = {}

\* the caller invokes the next function of its script
MakeCall(c) ==
    LET d == c.script[c.ip]
    IN  [c EXCEPT !.fn = d.fn, !.pc = "entry",
                  !.buf = d.base + d.off, !.len = d.len,
                  !.crc_in = IF d.chain THEN c.res[Len(c.res)] ELSE d.seed,
                  !.crc = Zero64, !.crc1 = Zero64, !.crc2 = Zero64, !.end = 0,
                  !.nread = 0, !.oob = FALSE, !.unal = FALSE, !.blocks = <<>>,
                  !.rd = {}, !.dup = FALSE]

\* a crc32 instruction executed on a CPU without SSE4.2 is an illegal
\* instruction; c2 is c after the step, which has read memory exactly when
\* it has executed one
OnCpu(c, c2) ==
    IF SSE42 \in cpu.ecx THEN c2
    ELSE IF c2.nread # c.nread THEN [c EXCEPT !.pc = "crashed"] ELSE c2

\* the accumulator crc declared static: one for all threads
Exec_StaticCrc(t, f, c2) ==
    /\ Runnable(t)
    /\ th[t].fn = f
    /\ th[t].pc # "crashed"
    /\ th' = [u \in Threads |-> IF u = t THEN c2 ELSE [th[u] EXCEPT !.crc = c2.crc]]
    /\ UNCHANGED <<stage, tables_setup, safe_crc32c, probes, cpu, loader, zeros_call>>

\* one step of thread t inside function f, leaving its locals as in c2
Exec(t, f, c2) ==
    /\ Runnable(t)
    /\ th[t].fn = f
    /\ th[t].pc # "crashed"
    /\ th' = [th EXCEPT ![t] = c2]
    /\ UNCHANGED <<stage, tables_setup, safe_crc32c, probes, cpu, loader, zeros_call>>

Call(t) ==
    /\ th[t].pc = "call"
    /\ th[t].ip <= Len(th[t].script)
    /\ Exec(t, "none", MakeCall(th[t]))

Step_crc32c(t) == Exec(t, "crc32c", crc32c(th[t]))
Step_crc32c_sw(t) == Exec(t, "crc32c_sw", crc32c_sw(th[t]))
Step_crc32c_sw_short_block(t) ==
    Exec(t, "crc32c_sw_short_block", crc32c_sw_short_block(th[t]))
Step_crc32c_sw_1way(t) == Exec(t, "crc32c_sw_1way", crc32c_sw_1way(th[t]))
Step_crc32c_hw(t) == Exec(t, "crc32c_hw", OnCpu(th[t], crc32c_hw(th[t])))
Step_crc32c_hw_short_block(t) ==
    Exec(t, "crc32c_hw_short_block", OnCpu(th[t], crc32c_hw_short_block(th[t])))
Step_crc32c_hw_1way(t) ==
    Exec(t, "crc32c_hw_1way", OnCpu(th[t], crc32c_hw_1way(th[t])))

-----------------------------------------------------------------------------
(* Static initialisation (lines 85-86, 524-546, 559-579).                *)

\* the CPUs the program may be loaded on: whether cpuid leaf 1 can be
\* queried, and the feature bits it reports in ECX (19: SSE4.1, 20: SSE4.2)
CPUs == {[cpuid_ok |-> ok, ecx |-> e] : ok \in BOOLEAN, e \in SUBSET {19, SSE42}}

\* setup_crc32c testing the SSE4.1 bit (0x00080000) instead of SSE4.2
setup_crc32c_WrongBit(c) ==
    LET registers2 == IF c.cpuid_ok THEN c.ecx ELSE {}
    IN  IF 19 \in registers2 THEN "crc32c_hw" ELSE "crc32c_sw"

\* setup_crc32c: the registers start zeroed; a failed query leaves them so
setup_crc32c(c) ==
    LET registers2 == IF c.cpuid_ok THEN c.ecx ELSE {}
    IN  IF SSE42 \in registers2 THEN "crc32c_hw" ELSE "crc32c_sw"

\* the loader picks the next translation unit whose initialisers it runs;
\* the order between translation units is not specified
StartInit ==
    /\ Alive
    /\ loader.cur = "none"
    /\ \E i \in loader.todo :
          loader' = [todo |-> loader.todo \ {i}, cur |-> i,
                     pc |-> IF i = "crc32c.cc" THEN "setup_tables" ELSE "run"]
    /\ UNCHANGED <<stage, tables_setup, safe_crc32c, probes, cpu, th, zeros_call>>

\* static bool tables_setup = setup_tables(): one table filled per step
\* (lookup row 0, lookup rows 1..7, crc32c_long, crc32c_short), then the flag
setup_tables ==
    /\ loader.cur = "crc32c.cc"
    /\ loader.pc = "setup_tables"
    /\ IF stage < 4
       THEN stage' = stage + 1 /\ UNCHANGED <<tables_setup, loader>>
       ELSE /\ tables_setup' = TRUE
            /\ loader' = [loader EXCEPT !.pc = "setup_crc32c"]
            /\ UNCHANGED stage
    /\ UNCHANGED <<safe_crc32c, probes, cpu, th, zeros_call>>

\* static crc32c_function safe_crc32c = setup_crc32c();
init_safe_crc32c ==
    /\ loader.cur = "crc32c.cc"
    /\ loader.pc = "setup_crc32c"
    /\ probes' = probes + 1
    /\ safe_crc32c' = setup_crc32c(cpu)
    /\ loader' = [loader EXCEPT !.cur = "none", !.pc = "done"]
    /\ UNCHANGED <<stage, tables_setup, cpu, th, zeros_call>>

\* the other translation unit's initialiser returns
EndInit ==
    /\ loader.cur = "other"
    /\ Finished(th[0])
    /\ loader' = [loader EXCEPT !.cur = "none", !.pc = "done"]
    /\ UNCHANGED <<stage, tables_setup, safe_crc32c, probes, cpu, th, zeros_call>>

\* the state once static initialisation has finished on CPU c
Loaded(c) ==
    /\ stage = 4
    /\ tables_setup = TRUE
    /\ cpu = c
    /\ safe_crc32c = setup_crc32c(c)
    /\ probes = 1
    /\ loader = [todo |-> {}, cur |-> "none", pc |-> "done"]
    /\ zeros_call = NoZerosCall

-----------------------------------------------------------------------------
(* Inputs.                                                               *)

Patterns == {<<0, 0, 0>>, <<0, 0, 255>>, <<1, 0, 0>>, <<255, 0, 31>>, <<7, 3, 5>>}
\* 0, 0xFFFFFFFF, 0x12345678
Seeds == {Zero32, <<255, 255, 255, 255>>, <<120, 86, 52, 18>>}
Aligns == 0..ALIGN64_MASK
\* a buffer whose first byte is at offset a from an 8-byte boundary
BaseAt(a) == 64 + a

SmallLens == 0..MaxSmallLen
ShortEdgeLens == (3 * SHORT_BLOCK - Slack)..(3 * SHORT_BLOCK + Slack)
LongEdgeLens == (3 * LONG_BLOCK - Slack)..(3 * LONG_BLOCK + Slack)
\* a length that takes long blocks, short blocks, words and a 7-byte tail
AllRegimesLen == 3 * LONG_BLOCK + 3 * SHORT_BLOCK + 7

CallOf(f, p, a, off, n, s) ==
    [fn |-> f, pat |-> p, base |-> BaseAt(a), off |-> off, len |-> n,
     seed |-> s, chain |-> FALSE]

\* single calls of either engine: every small length at every alignment with
\* every seed; the lengths around the two thresholds; the 32-byte buffers of
\* the known vectors; a null buffer with length 0
SingleCalls ==
    {CallOf(f, p, a, 0, n, s) :
        f \in {"crc32c_sw", "crc32c_hw"}, p \in {<<0, 0, 255>>, <<7, 3, 5>>},
        a \in Aligns, n \in SmallLens, s \in Seeds}
    \cup
    {CallOf(f, <<7, 3, 5>>, a, 0, n, <<120, 86, 52, 18>>) :
        f \in {"crc32c_sw", "crc32c_hw"}, a \in Aligns, n \in ShortEdgeLens}
    \cup
    {CallOf(f, <<7, 3, 5>>, a, 0, n, <<120, 86, 52, 18>>) :
        f \in {"crc32c_sw", "crc32c_hw"}, a \in {0, 3},
        n \in LongEdgeLens \cup {AllRegimesLen}}
    \cup
    {CallOf(f, p, a, 0, 32, Zero32) :
        f \in {"crc32c_sw", "crc32c_hw"}, p \in Patterns, a \in {0, 5}}
    \cup
    {[CallOf(f, <<7, 3, 5>>, 0, 0, 0, s) EXCEPT !.base = 0] :
        f \in {"crc32c_sw", "crc32c_hw"}, s \in Seeds}

WithScript(sc) == [t \in Threads |-> IF t = 1 THEN [Idle EXCEPT !.script = sc] ELSE Idle]

Init ==
    /\ Loaded([cpuid_ok |-> TRUE, ecx |-> {19, SSE42}])
    /\ \E d \in SingleCalls : th = WithScript(<<d>>)

\* the engines called directly, as the unit tests call them
NextDirect ==
    \E t \in Threads :
        \/ Call(t)
        \/ Step_crc32c_sw(t)
        \/ Step_crc32c_sw_short_block(t)
        \/ Step_crc32c_sw_1way(t)
        \/ Step_crc32c_hw(t)
        \/ Step_crc32c_hw_short_block(t)
        \/ Step_crc32c_hw_1way(t)

Spec == Init /\ [][NextDirect]_vars

-----------------------------------------------------------------------------
(* Streaming: the whole buffer in one call, then the same bytes in two   *)
(* chained calls split at offset k.                                      *)

\* a length of several multiples of 3*LONG_BLOCK, with short blocks and a tail
SeveralLongLen == 2 * 3 * LONG_BLOCK + 3 * SHORT_BLOCK + 5

StreamScript(f, p, a, n, k, s) ==
    <<CallOf(f, p, a, 0, n, s),
      CallOf(f, p, a, 0, k, s),
      [CallOf(f, p, a, k, n - k, s) EXCEPT !.chain = TRUE]>>

StreamScripts ==
    {StreamScript(f, <<7, 3, 5>>, a, nk[1], nk[2], s) :
        f \in {"crc32c_sw", "crc32c_hw"}, a \in Aligns,
        nk \in {x \in SmallLens \X SmallLens : x[2] <= x[1]},
        s \in {<<120, 86, 52, 18>>}}
    \cup
    {StreamScript(f, <<7, 3, 5>>, a, nk[1], nk[2], Zero32) :
        f \in {"crc32c_sw", "crc32c_hw"}, a \in {0, 3},
        nk \in {x \in ShortEdgeLens \X
                      {0, 1, 3 * SHORT_BLOCK - 1, 3 * SHORT_BLOCK, 3 * SHORT_BLOCK + 1} :
                  x[2] <= x[1]}}
    \cup
    {StreamScript(f, <<7, 3, 5>>, 3, n, k, <<255, 255, 255, 255>>) :
        f \in {"crc32c_sw", "crc32c_hw"},
        n \in LongEdgeLens \cup {AllRegimesLen}, k \in {5, 3 * LONG_BLOCK - 3}}

InitStream ==
    /\ Loaded([cpuid_ok |-> TRUE, ecx |-> {19, SSE42}])
    /\ \E sc \in StreamScripts : th = WithScript(sc)

SpecStream == InitStream /\ [][NextDirect]_vars

-----------------------------------------------------------------------------
(* Engine pairs: the same call made to the software engine and to the    *)
(* hardware engine.                                                      *)

EngineScript(p, a, n, s) ==
    <<CallOf("crc32c_sw", p, a, 0, n, s), CallOf("crc32c_hw", p, a, 0, n, s)>>

EngineScripts ==
    {EngineScript(p, a, n, s) :
        p \in {<<255, 0, 31>>, <<7, 3, 5>>}, a \in Aligns, n \in SmallLens,
        s \in Seeds}
    \cup
    {EngineScript(<<7, 3, 5>>, a, n, Zero32) : a \in Aligns, n \in ShortEdgeLens}
    \cup
    {EngineScript(<<7, 3, 5>>, a, AllRegimesLen, <<120, 86, 52, 18>>) : a \in Aligns}
    \cup
    {EngineScript(<<7, 3, 5>>, a, n, <<255, 255, 255, 255>>) :
        a \in {0, 5}, n \in LongEdgeLens}
    \cup
    {EngineScript(<<1, 0, 0>>, 6, SeveralLongLen, Zero32)}

InitEngines ==
    /\ Loaded([cpuid_ok |-> TRUE, ecx |-> {19, SSE42}])
    /\ \E sc \in EngineScripts : th = WithScript(sc)

SpecEngines == InitEngines /\ [][NextDirect]_vars

-----------------------------------------------------------------------------
(* Alignment pairs: the same bytes held in an 8-byte aligned buffer and  *)
(* in a buffer that starts a bytes after an 8-byte boundary.             *)

AlignScript(f, p, a, n, s) == <<CallOf(f, p, 0, 0, n, s), CallOf(f, p, a, 0, n, s)>>

AlignScripts ==
    {AlignScript(f, <<7, 3, 5>>, a, n, s) :
        f \in {"crc32c_sw", "crc32c_hw"}, a \in 1..ALIGN64_MASK, n \in SmallLens,
        s \in {Zero32, <<120, 86, 52, 18>>}}
    \cup
    {AlignScript(f, <<7, 3, 5>>, a, n, Zero32) :
        f \in {"crc32c_sw", "crc32c_hw"}, a \in 1..ALIGN64_MASK, n \in ShortEdgeLens}
    \cup
    {AlignScript(f, <<255, 0, 31>>, a, n, <<255, 255, 255, 255>>) :
        f \in {"crc32c_sw", "crc32c_hw"}, a \in {1, ALIGN64_MASK},
        n \in LongEdgeLens \cup {AllRegimesLen}}

InitAlign ==
    /\ Loaded([cpuid_ok |-> TRUE, ecx |-> {19, SSE42}])
    /\ \E sc \in AlignScripts : th = WithScript(sc)

SpecAlign == InitAlign /\ [][NextDirect]_vars

-----------------------------------------------------------------------------
(* Load: the process starts with its statics zero-initialised; the       *)
(* loader runs the initialisers of crc32c.cc and those of another        *)
(* translation unit, which may call crc32c, in either order; then main   *)
(* runs and thread 1 calls crc32c twice.                                 *)

PublicCall(p, a, n, s) == CallOf("crc32c", p, a, 0, n, s)

LoadScripts0 == {<<>>, <<PublicCall(<<1, 0, 0>>, 0, 4, Zero32)>>}
LoadScripts1 ==
    {<<PublicCall(<<7, 3, 5>>, 3, n, Zero32),
       [PublicCall(<<7, 3, 5>>, 5, 9, Zero32) EXCEPT !.chain = TRUE]>> :
        n \in {0, 9, 3 * SHORT_BLOCK}}

InitLoad ==
    /\ stage = 0
    /\ tables_setup = FALSE
    /\ safe_crc32c = "null"
    /\ probes = 0
    /\ cpu \in CPUs
    /\ loader = [todo |-> {"crc32c.cc", "other"}, cur |-> "none", pc |-> "idle"]
    /\ zeros_call = NoZerosCall
    /\ \E s0 \in LoadScripts0, s1 \in LoadScripts1 :
          th = [t \in Threads |->
                  IF t = 0 THEN [Idle EXCEPT !.script = s0]
                  ELSE IF t = 1 THEN [Idle EXCEPT !.script = s1]
                  ELSE Idle]

NextPublic ==
    \E t \in Threads :
        \/ Call(t)
        \/ Step_crc32c(t)
        \/ Step_crc32c_sw(t)
        \/ Step_crc32c_sw_short_block(t)
        \/ Step_crc32c_sw_1way(t)
        \/ Step_crc32c_hw(t)
        \/ Step_crc32c_hw_short_block(t)
        \/ Step_crc32c_hw_1way(t)

NextLoad ==
    \/ StartInit
    \/ setup_tables
    \/ init_safe_crc32c
    \/ EndInit
    \/ NextPublic

SpecLoad == InitLoad /\ [][NextLoad]_vars

-----------------------------------------------------------------------------
(* Threads: after static initialisation, on a CPU with or without        *)
(* SSE4.2, every thread 1..NumThreads makes one call of crc32c, the      *)
(* calls interleaving step by step.                                      *)

ShortCall == PublicCall(<<7, 3, 5>>, 0, 1, <<120, 86, 52, 18>>)
ThreeLaneCall == PublicCall(<<255, 0, 31>>, 0, 3 * SHORT_BLOCK, Zero32)

\* threads 1 and 2 make either call, any further thread the short one
CallsOf(t) == IF t <= 2 THEN {ShortCall, ThreeLaneCall} ELSE {ShortCall}

InitThreads ==
    /\ \E c \in {[cpuid_ok |-> TRUE, ecx |-> {19, SSE42}],
                 [cpuid_ok |-> TRUE, ecx |-> {19}]} : Loaded(c)
    /\ th \in [Threads -> {Idle} \cup {[Idle EXCEPT !.script = <<d>>] :
                                        d \in {ShortCall, ThreeLaneCall}}]
    /\ th[0] = Idle
    /\ \A t \in 1..NumThreads : th[t] # Idle /\ th[t].script[1] \in CallsOf(t)

SpecThreads == InitThreads /\ [][NextPublic]_vars

\* the next step of a thread running alone
StepOf(c) ==
    CASE c.fn = "none" -> MakeCall(c)
      [] c.fn = "crc32c" -> crc32c(c)
      [] c.fn = "crc32c_sw" -> crc32c_sw(c)
      [] c.fn = "crc32c_sw_short_block" -> crc32c_sw_short_block(c)
      [] c.fn = "crc32c_sw_1way" -> crc32c_sw_1way(c)
      [] c.fn = "crc32c_hw" -> OnCpu(c, crc32c_hw(c))
      [] c.fn = "crc32c_hw_short_block" -> OnCpu(c, crc32c_hw_short_block(c))
      [] c.fn = "crc32c_hw_1way" -> OnCpu(c, crc32c_hw_1way(c))

Descs ==
    [fn : STRING, pat : Nat \X Nat \X Nat, base : Nat, off : Nat, len : Nat,
     seed : U32, chain : BOOLEAN]

ThreadRecs ==
    [fn : STRING, pc : STRING, ip : Nat, script : Seq(Descs), res : Seq(U32),
     buf : Nat, len : Int, crc_in : U32, crc : U64, crc1 : U64, crc2 : U64,
     end : Nat, nread : Nat, oob : BOOLEAN, unal : BOOLEAN, blocks : Seq(Nat),
     rd : SUBSET (Nat \X Nat), dup : BOOLEAN]

\* a thread run alone, with no other thread taking a step, until it has made
\* all its calls (or the process has crashed)
RunAlone[c \in ThreadRecs] ==
    IF Finished(c) \/ c.pc = "crashed" THEN c ELSE RunAlone[StepOf(c)]

-----------------------------------------------------------------------------
(* 3-lane blocks: single calls of either engine over no block, one     *)
(* short block, two short blocks, one long block, and a long and a short *)
(* block, on an aligned and on a misaligned buffer.                      *)

LaneLens ==
    {3 * SHORT_BLOCK - 1, 3 * SHORT_BLOCK + 8, 6 * SHORT_BLOCK + 8,
     3 * LONG_BLOCK + 8, AllRegimesLen}

LaneCalls ==
    {CallOf(f, <<7, 3, 5>>, a, 0, n, s) :
        f \in {"crc32c_sw", "crc32c_hw"},
        a \in {0, 5}, n \in LaneLens, s \in {Zero32, <<120, 86, 52, 18>>}}

InitLanes ==
    /\ Loaded([cpuid_ok |-> TRUE, ecx |-> {19, SSE42}])
    /\ \E d \in LaneCalls : th = WithScript(<<d>>)

SpecLanes == InitLanes /\ [][NextDirect]_vars

-----------------------------------------------------------------------------
(* The operator builder on its own: crc32c_zeros(zeros, len) called with *)
(* a length, step by step (crc32c_zeros_op builds the operator, the loop *)
(* fills the four tables), then the operator and the tables applied to a *)
(* 32-bit value by gf2_matrix_times and by crc32c_shift.                 *)

\* the small lengths and the two block widths
ZerosLens == SmallLens \cup {SHORT_BLOCK, LONG_BLOCK}

\* 0, 0xFFFFFFFF, 0x12345678, 1, 0x80000000, the polynomial, 0x0100FF00, 3
Vectors ==
    Seeds \cup {<<1, 0, 0, 0>>, <<0, 0, 0, 128>>, CRC32C_POLYNOMIAL_REV,
                <<0, 255, 0, 1>>, <<3, 0, 0, 0>>}

\* crc32c_zeros_op(op, len);
Call_crc32c_zeros_op ==
    /\ zeros_call.pc = "call"
    /\ zeros_call' = [zeros_call EXCEPT !.op = crc32c_zeros_op(zeros_call.len),
                                         !.pc = "op"]
    /\ UNCHANGED <<stage, tables_setup, safe_crc32c, probes, cpu, loader, th>>

\* for (n = 0; n < 256; n++) { zeros[k][n] = gf2_matrix_times(op, n << 8k); }
Fill_zeros ==
    /\ zeros_call.pc = "op"
    /\ zeros_call' = [zeros_call EXCEPT !.zeros = ShiftTableOf[zeros_call.op],
                                         !.pc = "zeros"]
    /\ UNCHANGED <<stage, tables_setup, safe_crc32c, probes, cpu, loader, th>>

\* gf2_matrix_times(op, vec)
Call_gf2_matrix_times ==
    /\ zeros_call.pc = "zeros"
    /\ \E v \in Vectors :
          zeros_call' = [zeros_call EXCEPT !.vec = v,
                                           !.times = gf2_matrix_times(zeros_call.op, v),
                                           !.pc = "times"]
    /\ UNCHANGED <<stage, tables_setup, safe_crc32c, probes, cpu, loader, th>>

\* crc32c_shift(zeros, vec)
Call_crc32c_shift ==
    /\ zeros_call.pc = "times"
    /\ zeros_call' = [zeros_call EXCEPT
                        !.shifted = crc32c_shift(zeros_call.zeros, zeros_call.vec),
                        !.pc = "shifted"]
    /\ UNCHANGED <<stage, tables_setup, safe_crc32c, probes, cpu, loader, th>>

InitZeros ==
    /\ stage = 4
    /\ tables_setup = TRUE
    /\ cpu = [cpuid_ok |-> TRUE, ecx |-> {19, SSE42}]
    /\ safe_crc32c = setup_crc32c(cpu)
    /\ probes = 1
    /\ loader = [todo |-> {}, cur |-> "none", pc |-> "done"]
    /\ th = [t \in Threads |-> Idle]
    /\ \E n \in ZerosLens : zeros_call = [NoZerosCall EXCEPT !.pc = "call", !.len = n]

NextZeros ==
    \/ Call_crc32c_zeros_op
    \/ Fill_zeros
    \/ Call_gf2_matrix_times
    \/ Call_crc32c_shift

SpecZeros == InitZeros /\ [][NextZeros]_vars

-----------------------------------------------------------------------------
(* The bit-at-a-time reflected CRC-32C reference.                        *)

\* 0x82F63B78
RefPoly == <<120, 59, 246, 130>>

\* shift right by one, XOR the polynomial if the bit shifted out was 1
RefBit[s \in U32] == IF s[1] % 2 = 1 THEN Xor32(Shr1(s), RefPoly) ELSE Shr1(s)

\* XOR the byte into the low 8 bits, then 8 steps
RefByte[s \in U32, b \in U8] ==
    RefBit[RefBit[RefBit[RefBit[RefBit[RefBit[RefBit[RefBit[
        <<XorTab[s[1]][b], s[2], s[3], s[4]>>]]]]]]]]

\* the bytes at offsets lo..hi-1 of pattern p folded in order into s
RefFold[s \in U32, p \in Patterns, lo \in Nat, hi \in Nat] ==
    IF hi <= lo THEN s
    ELSE IF hi = lo + 1 THEN RefByte[s, Byte(p, lo)]
    ELSE RefFold[RefFold[s, p, lo, (lo + hi) \div 2], p, (lo + hi) \div 2, hi]

Reference(p, off, n, seed) == Not32(RefFold[Not32(seed), p, off, off + n])

\* the seed the i-th call of thread record c was made with
SeedOf(c, i) == IF c.script[i].chain THEN c.res[i - 1] ELSE c.script[i].seed

\* thread record c has returned from its i-th call
Returned(c, i) == i \in 1..Len(c.res)

\* thread record c has just returned from its last call but one or later,
\* and is not inside a call
Between(c) == c.fn = "none" /\ Len(c.res) >= 1

\* the 32-bit value 0xB3B2B1B0, written most significant byte first
Hex32(b3, b2, b1, b0) == <<b0, b1, b2, b3>>

-----------------------------------------------------------------------------
\* C1: whenever a call of either engine has returned, its result is the
\* bit-at-a-time reflected CRC-32C reference of the bytes it was given,
\* started from the complement of the seed and complemented at the end.
C1_MatchesReference ==
    \A t \in Threads :
        Between(th[t]) =>
            LET c == th[t]
                i == Len(c.res)
                d == c.script[i]
            IN  c.res[i] = Reference(d.pat, d.off, d.len, SeedOf(c, i))

\* a call of the hardware engine over long blocks, short blocks, words and a
\* tail has returned, having read every byte it was given
C1_Witness ==
    /\ Between(th[1])
    /\ th[1].script[1].fn = "crc32c_hw"
    /\ th[1].script[1].len = AllRegimesLen
    /\ th[1].script[1].base % 8 # 0
    /\ th[1].nread = AllRegimesLen

-----------------------------------------------------------------------------
\* C3: a call of either engine with length 0 returns the seed unchanged and
\* has read no byte of the buffer, whatever the seed and the buffer pointer
\* (any alignment, or null).
C3_Identity ==
    \A t \in Threads :
        (Between(th[t]) /\ th[t].script[Len(th[t].res)].len = 0) =>
            /\ th[t].res[Len(th[t].res)] = SeedOf(th[t], Len(th[t].res))
            /\ th[t].nread = 0

\* the hardware engine has returned from a call with a null buffer, length 0
\* and seed 0xFFFFFFFF
C3_Witness ==
    /\ Between(th[1])
    /\ th[1].script[1].fn = "crc32c_hw"
    /\ th[1].script[1].base = 0
    /\ th[1].script[1].len = 0
    /\ th[1].script[1].seed = <<255, 255, 255, 255>>

-----------------------------------------------------------------------------
\* C6: with seed 0 and length 32, 32 bytes of 0x00 give 0x8A9136AA, 32 bytes
\* of 0xFF give 0x62A8AB43, the bytes 0x00..0x1F give 0x46DD794E and the
\* bytes 0x1F..0x00 give 0x113FDB5C.
C6_KnownVectors ==
    \A t \in Threads :
        LET c == th[t]
            d == c.script[Len(c.res)]
        IN  (Between(c) /\ d.len = 32 /\ d.off = 0 /\ SeedOf(c, Len(c.res)) = Zero32) =>
              /\ d.pat = <<0, 0, 0>> => c.res[Len(c.res)] = Hex32(138, 145, 54, 170)
              /\ d.pat = <<0, 0, 255>> => c.res[Len(c.res)] = Hex32(98, 168, 171, 67)
              /\ d.pat = <<1, 0, 0>> => c.res[Len(c.res)] = Hex32(70, 221, 121, 78)
              /\ d.pat = <<255, 0, 31>> => c.res[Len(c.res)] = Hex32(17, 63, 219, 92)

\* the software engine has returned from the call on the bytes 0x1F..0x00
\* held in a buffer that does not start on an 8-byte boundary
C6_Witness ==
    /\ Between(th[1])
    /\ th[1].script[1].fn = "crc32c_sw"
    /\ th[1].script[1].pat = <<255, 0, 31>>
    /\ th[1].script[1].len = 32
    /\ th[1].script[1].base % 8 = 5
    /\ th[1].res[1] = Hex32(17, 63, 219, 92)

-----------------------------------------------------------------------------
\* C2: when a caller has checksummed len1 + len2 bytes in one call and then
\* the first len1 of them and, seeded with that result, the remaining len2
\* in two calls, the chained result equals the single-call result.
C2_Streaming ==
    \A t \in Threads :
        LET c == th[t]
        IN  (/\ Finished(c) /\ Len(c.res) = 3
             /\ c.script[2].off = c.script[1].off
             /\ c.script[3].off = c.script[2].off + c.script[2].len
             /\ c.script[2].len + c.script[3].len = c.script[1].len
             /\ c.script[3].chain)
            => c.res[3] = c.res[1]

\* a buffer taking long blocks, short blocks, words and a tail has been
\* checksummed whole and in two non-empty parts
C2_Witness ==
    /\ Finished(th[1])
    /\ Len(th[1].res) = 3
    /\ th[1].script[1].len = AllRegimesLen
    /\ th[1].script[2].len = 3 * LONG_BLOCK - 3
    /\ th[1].script[3].chain
    /\ th[1].res[3] = th[1].res[1]

-----------------------------------------------------------------------------
\* C4: when a caller has given the same buffer, length and seed to the
\* software engine and to the hardware engine, the two results are equal.
C4_EnginesAgree ==
    \A t \in Threads :
        LET c == th[t]
        IN  (/\ Finished(c) /\ Len(c.res) = 2
             /\ c.script[1].fn = "crc32c_sw" /\ c.script[2].fn = "crc32c_hw"
             /\ [c.script[1] EXCEPT !.fn = "crc32c_hw"] = c.script[2])
            => c.res[1] = c.res[2]

\* both engines have returned from a call of several multiples of
\* 3*LONG_BLOCK bytes on a buffer that starts 6 bytes after an 8-byte boundary
C4_Witness ==
    /\ Finished(th[1])
    /\ Len(th[1].res) = 2
    /\ th[1].script[1].fn = "crc32c_sw"
    /\ th[1].script[2].fn = "crc32c_hw"
    /\ th[1].script[1].len = SeveralLongLen
    /\ th[1].script[1].base % 8 = 6
    /\ th[1].res[1] = th[1].res[2]

-----------------------------------------------------------------------------
\* C5: when a caller has given the same bytes, length and seed to the same
\* engine in two buffers that start at different offsets from an 8-byte
\* boundary, the two results are equal.
C5_AlignmentInvariant ==
    \A t \in Threads :
        LET c == th[t]
        IN  (/\ Finished(c) /\ Len(c.res) = 2
             /\ c.script[1].base % 8 # c.script[2].base % 8
             /\ [c.script[1] EXCEPT !.base = 0] = [c.script[2] EXCEPT !.base = 0])
            => c.res[1] = c.res[2]

\* an engine has returned from a long-block call on an aligned buffer and on
\* one that starts 7 bytes after an 8-byte boundary
C5_Witness ==
    /\ Finished(th[1])
    /\ Len(th[1].res) = 2
    /\ th[1].script[1].len = AllRegimesLen
    /\ th[1].script[1].base % 8 = 0
    /\ th[1].script[2].base % 8 = 7
    /\ th[1].script[2].fn = "crc32c_hw"
    /\ th[1].res[1] = th[1].res[2]

-----------------------------------------------------------------------------
\* the probe reported the SSE4.2 bit: cpuid leaf 1 could be queried and bit
\* 20 of ECX was set
ProbeReportsSSE42 == cpu.cpuid_ok /\ SSE42 \in cpu.ecx

HwFunctions == {"crc32c_hw", "crc32c_hw_short_block", "crc32c_hw_1way"}

\* C7: the capability probe is made at most once and has been made before any
\* call from main; once made, the binding is the hardware engine exactly when
\* the probe reported SSE4.2 (the software engine also when the probe
\* failed), it never changes, every call of the public crc32c is routed to
\* that engine, and no hardware engine function ever runs on a CPU without
\* SSE4.2.
C7_Dispatch ==
    /\ [](probes <= 1)
    /\ [](\A t \in 1..NumThreads : (th[t].fn # "none" \/ th[t].res # <<>>) => probes = 1)
    /\ [](probes = 1 =>
            safe_crc32c = IF ProbeReportsSSE42 THEN "crc32c_hw" ELSE "crc32c_sw")
    /\ [](\A t \in Threads : th[t].fn \in HwFunctions => SSE42 \in cpu.ecx)
    /\ [][probes = 1 => (probes' = 1 /\ safe_crc32c' = safe_crc32c)]_vars
    /\ [][\A t \in Threads :
            (probes = 1 /\ th[t].fn = "crc32c" /\ th'[t].fn # "crc32c") =>
                th'[t].fn = IF ProbeReportsSSE42 THEN "crc32c_hw" ELSE "crc32c_sw"]_vars

\* on a CPU that has SSE4.2 but whose probe failed, main's thread has made
\* both its calls through the public crc32c, after one probe
C7_Witness ==
    /\ Finished(th[1])
    /\ Len(th[1].res) = 2
    /\ probes = 1
    /\ ~cpu.cpuid_ok
    /\ SSE42 \in cpu.ecx
    /\ safe_crc32c = "crc32c_sw"

-----------------------------------------------------------------------------
\* C8: whenever any thread or load-time initialiser is inside a crc32c call,
\* the three tables are completely built and the engine binding is set.
C8_InitBeforeUse ==
    \A t \in Threads :
        th[t].fn # "none" =>
            /\ stage = 4
            /\ tables_setup
            /\ safe_crc32c # "null"

-----------------------------------------------------------------------------
\* C9: no step of any call changes the lookup table, the shift tables, the
\* engine binding or the caller's buffer, and whenever a thread has returned
\* from its call, the result is the result of the same call run alone.
C9_ThreadSafe ==
    /\ [][/\ <<stage, tables_setup, safe_crc32c>>' = <<stage, tables_setup, safe_crc32c>>
          /\ \A t \in Threads : th'[t].script = th[t].script]_vars
    /\ [](\A t \in Threads :
            Between(th[t]) =>
                th[t].res = RunAlone[[Idle EXCEPT !.script = th[t].script]].res)

\* two threads have both returned from a 3-lane call that they ran at the
\* same time
C9_Witness ==
    /\ Finished(th[1]) /\ Finished(th[2])
    /\ th[1].script[1] = ThreeLaneCall
    /\ th[2].script[1] = ThreeLaneCall
    /\ th[1].res = th[2].res
    /\ safe_crc32c = "crc32c_hw"

-----------------------------------------------------------------------------
EngineFunctions ==
    {"crc32c_sw", "crc32c_sw_short_block", "crc32c_sw_1way",
     "crc32c_hw", "crc32c_hw_short_block", "crc32c_hw_1way"}

\* a step of a call that has run a loop body has decreased the remaining
\* length or has advanced buf within its block; a lane combination has
\* decreased the remaining length
LoopProgress(c, c2) ==
    /\ c2.nread > c.nread =>
          (c2.len < c.len \/ (c2.buf > c.buf /\ c2.buf <= c.end))
    /\ c.pc \in {"long_comb", "short_comb"} => c2.len < c.len

\* the places of a call, later ones lower, a loop head above its body
PlaceRank(c) ==
    CASE c.pc = "crashed" -> 0
      [] c.pc = "entry" /\ c.fn = "crc32c" -> 15
      [] c.pc = "entry" /\ c.fn \in {"crc32c_sw", "crc32c_hw"} -> 14
      [] c.pc = "entry" /\ c.fn \in {"crc32c_sw_short_block", "crc32c_hw_short_block"} -> 13
      [] c.pc = "entry" -> 12
      [] c.pc = "align" -> 11
      [] c.pc = "long_comb" -> 10
      [] c.pc = "long" -> 9
      [] c.pc = "long_lane" -> 8
      [] c.pc = "short_comb" -> 7
      [] c.pc = "short" -> 6
      [] c.pc = "short_lane" -> 5
      [] c.pc = "words" -> 4
      [] c.pc = "tail" -> 3
      [] c.pc = "ret" -> 2

\* a bound on the steps of the calls i..Len(script) not yet made
RECURSIVE CallsRank(_, _)
CallsRank(script, i) ==
    IF i > Len(script) THEN 0
    ELSE 16 * script[i].len + 17 + CallsRank(script, i + 1)

\* a bound on the steps a thread still takes: 16 for each byte not yet read
\* plus the rank of its place, plus the bound of the calls not yet made
Rank(c) ==
    IF c.fn = "none" THEN CallsRank(c.script, c.ip)
    ELSE 16 * (Desc(c).len - c.nread) + PlaceRank(c) + CallsRank(c.script, c.ip + 1)

\* C10: every call returns a 32-bit value: it never ends in an error nor
\* reads outside its buffer, a thread that has not made all its calls can
\* take a step, every step strictly decreases a bound that is linear in the
\* length and never negative (so no call runs forever), and every loop
\* iteration decreases the remaining length or advances buf toward its
\* block end.
C10_Total ==
    /\ [](\A t \in Threads :
            /\ th[t].pc # "crashed" /\ ~th[t].oob
            /\ \A i \in 1..Len(th[t].res) : th[t].res[i] \in U32
            /\ Rank(th[t]) >= 0)
    /\ [](\A t \in 1..NumThreads :
            \/ Finished(th[t])
            \/ Runnable(t) /\ th[t].fn \in {"none"} \cup EngineFunctions)
    /\ [][\A t \in Threads :
            th'[t] # th[t] =>
                /\ Rank(th'[t]) < Rank(th[t])
                /\ LoopProgress(th[t], th'[t])]_vars

\* the software engine has returned from a call of 3*LONG_BLOCK + 1 bytes
\* on a buffer that starts 3 bytes after an 8-byte boundary
C10_Witness ==
    /\ Finished(th[1])
    /\ Len(th[1].res) = 1
    /\ th[1].script[1].fn = "crc32c_sw"
    /\ th[1].script[1].len = 3 * LONG_BLOCK + 1
    /\ th[1].script[1].base % 8 = 3
    /\ th[1].res[1] \in U32
    /\ th[1].nread = 3 * LONG_BLOCK + 1

-----------------------------------------------------------------------------
\* the CRC register after n zero bytes have been appended to register s
ZerosFold[s \in U32, n \in Nat] ==
    IF n = 0 THEN s
    ELSE IF n = 1 THEN RefByte[s, 0]
    ELSE ZerosFold[ZerosFold[s, n \div 2], n - (n \div 2)]

\* the largest power of two <= n, for n >= 1
RECURSIVE FloorPow2(_)
FloorPow2(n) == IF n <= 1 THEN 1 ELSE 2 * FloorPow2(n \div 2)

\* matrix m is the operator that appends n zero bytes: each row r is the
\* register obtained from 1 << r, and so, the register update being linear
\* over GF(2), m times any s is the register obtained from s
AppendsZeros(m, n) ==
    \A r \in 0..31 :
        m[r] = ZerosFold[<<Bit32(r)[1], Bit32(r)[2], Bit32(r)[3], Bit32(r)[4]>>, n]

\* C11 as stated: for every length >= 1, the matrix crc32c_zeros_op returns
\* is the operator that appends exactly length zero bytes, and
\* gf2_matrix_times of it and s is the register after length zero bytes.
C11_EveryLength ==
    (zeros_call.pc # "none" /\ zeros_call.pc # "call" /\ zeros_call.len >= 1) =>
        /\ zeros_call.pc = "op" => AppendsZeros(zeros_call.op, zeros_call.len)
        /\ zeros_call.pc \in {"times", "shifted"} =>
              zeros_call.times = ZerosFold[zeros_call.vec, zeros_call.len]

\* C11 amended: for every length >= 1, the matrix crc32c_zeros_op returns is
\* the operator that appends exactly P zero bytes, P the largest power of two
\* <= length (so it appends length zero bytes exactly when length is a power
\* of two), and gf2_matrix_times of it and s is the register after P zero
\* bytes.
C11_PowerOfTwo ==
    (zeros_call.pc # "none" /\ zeros_call.pc # "call" /\ zeros_call.len >= 1) =>
        /\ zeros_call.pc = "op" =>
              AppendsZeros(zeros_call.op, FloorPow2(zeros_call.len))
        /\ zeros_call.pc \in {"times", "shifted"} =>
              zeros_call.times = ZerosFold[zeros_call.vec, FloorPow2(zeros_call.len)]

\* the operator built for length 3 has been applied to 0x12345678, and the
\* product is the register after 2 zero bytes, not after 3
C11_Witness ==
    /\ zeros_call.pc = "times"
    /\ zeros_call.len = 3
    /\ zeros_call.vec = <<120, 86, 52, 18>>
    /\ zeros_call.times = ZerosFold[zeros_call.vec, 2]
    /\ zeros_call.times # ZerosFold[zeros_call.vec, 3]

-----------------------------------------------------------------------------
\* the running state of call c once the bytes before pattern offset o have
\* been folded in order, starting from the complement of the seed
StateAt(c, o) == RefFold[Not32(c.crc_in), Desc(c).pat, Desc(c).off, o]

\* call c has folded the three lanes of a block and is about to combine them
AtCombine(c) == c.fn # "none" /\ c.pc \in {"long_comb", "short_comb"}

\* the width of the block call c is in, and the offset of its first byte
WidthOf(c) == IF c.pc \in {"long", "long_lane", "long_comb"} THEN LONG_BLOCK ELSE SHORT_BLOCK
BlockStart(c) == c.end - WidthOf(c) - Desc(c).base

\* C12: at the head of every 3-lane loop the accumulator is the running state
\* c of the bytes folded so far; when the lanes of a block of 3*W bytes have
\* been folded, lane 0 is c folded over [0,W), lane 1 is 0 folded over
\* [W,2W) and lane 2 is 0 folded over [2W,3W); and the combination leaves
\* exactly c folded over all 3*W bytes in order, buf at the end of the block
\* and len smaller by 3*W.
C12_LaneCombination ==
    /\ [](\A t \in Threads :
            (th[t].fn # "none" /\ th[t].pc \in {"long", "short"}) =>
                th[t].crc = ToU64(StateAt(th[t], th[t].buf - Desc(th[t]).base)))
    /\ [](\A t \in Threads :
            AtCombine(th[t]) =>
                LET c == th[t]
                    W == WidthOf(c)
                    o == BlockStart(c)
                    p == Desc(c).pat
                IN  /\ c.crc  = ToU64(RefFold[StateAt(c, o), p, o, o + W])
                    /\ c.crc1 = ToU64(RefFold[Zero32, p, o + W, o + 2 * W])
                    /\ c.crc2 = ToU64(RefFold[Zero32, p, o + 2 * W, o + 3 * W]))
    /\ [][\A t \in Threads :
            (AtCombine(th[t]) /\ th'[t] # th[t]) =>
                LET c == th[t]
                    W == WidthOf(c)
                    o == BlockStart(c)
                IN  /\ th'[t].crc = ToU64(RefFold[StateAt(c, o), Desc(c).pat, o, o + 3 * W])
                    /\ th'[t].buf = Desc(c).base + o + 3 * W
                    /\ th'[t].len = c.len - 3 * W
                    /\ th'[t].len >= 0]_vars

\* the hardware engine, on a buffer that starts 5 bytes after an 8-byte
\* boundary, has combined its second short block
C12_Witness ==
    /\ th[1].fn = "crc32c_hw_short_block"
    /\ th[1].pc = "short"
    /\ Desc(th[1]).base % 8 = 5
    /\ th[1].nread = 3 + 6 * SHORT_BLOCK
    /\ th[1].buf = Desc(th[1]).base + 3 + 6 * SHORT_BLOCK

-----------------------------------------------------------------------------
\* the 32-bit value v << 8p, for a byte v and p in 0..3
ByteAt(v, p) == [i \in 1..4 |-> IF i = p + 1 THEN v ELSE 0]

\* C13: once crc32c_zeros has filled the tables from the operator matrix op,
\* zeros[p][v] is gf2_matrix_times(op, v << 8p) for every p in 0..3 and v in
\* 0..255, and for a 32-bit value crc, crc32c_shift(zeros, crc) (the XOR of
\* the four entries selected by the bytes of crc) is gf2_matrix_times(op, crc).
C13_ShiftTable ==
    /\ zeros_call.pc \in {"zeros", "times", "shifted"} =>
          \A p \in 0..3, v \in 0..255 :
              zeros_call.zeros[p][v] = gf2_matrix_times(zeros_call.op, ByteAt(v, p))
    /\ zeros_call.pc = "shifted" =>
          /\ zeros_call.shifted =
                Xor32(Xor32(zeros_call.zeros[0][zeros_call.vec[1]],
                            zeros_call.zeros[1][zeros_call.vec[2]]),
                      Xor32(zeros_call.zeros[2][zeros_call.vec[3]],
                            zeros_call.zeros[3][zeros_call.vec[4]]))
          /\ zeros_call.shifted = gf2_matrix_times(zeros_call.op, zeros_call.vec)
          /\ zeros_call.shifted = zeros_call.times

\* the tables of the LONG_BLOCK operator have been applied to 0x12345678
C13_Witness ==
    /\ zeros_call.pc = "shifted"
    /\ zeros_call.len = LONG_BLOCK
    /\ zeros_call.vec = <<120, 86, 52, 18>>
    /\ zeros_call.op = crc32c_zeros_op(LONG_BLOCK)
    /\ zeros_call.shifted # zeros_call.vec

-----------------------------------------------------------------------------
\* the bytes of call descriptor d before the first 8-byte boundary (0..7),
\* or all of them when the buffer ends first
Leading(d) ==
    LET pad == (8 - ((d.base + d.off) % 8)) % 8
    IN  IF pad < d.len THEN pad ELSE d.len

\* the long blocks of a call are combined before its short blocks
LongBeforeShort(blocks) ==
    \A i, j \in 1..Len(blocks) :
        (i < j /\ blocks[i] = SHORT_BLOCK) => blocks[j] = SHORT_BLOCK

\* C14 as stated: a returned call with 3*SHORT_BLOCK <= length < 3*LONG_BLOCK
\* has combined at least one short block, at any alignment; a returned call
\* with length < 3*SHORT_BLOCK has combined no block; and no long block is
\* ever combined after a short one.
C14_AnyAlignment ==
    \A t \in Threads :
        /\ LongBeforeShort(th[t].blocks)
        /\ Between(th[t]) =>
              LET d == th[t].script[Len(th[t].res)]
              IN  /\ (3 * SHORT_BLOCK <= d.len /\ d.len < 3 * LONG_BLOCK) =>
                        \E i \in 1..Len(th[t].blocks) : th[t].blocks[i] = SHORT_BLOCK
                  /\ d.len < 3 * SHORT_BLOCK => th[t].blocks = <<>>

\* C14 amended: a returned call with 3*SHORT_BLOCK <= length < 3*LONG_BLOCK
\* has combined at least one short block if at least 3*SHORT_BLOCK bytes
\* remain after the bytes before the first 8-byte boundary, and no block at
\* all otherwise; a returned call with length < 3*SHORT_BLOCK has combined no
\* block; and no long block is ever combined after a short one.
C14_AfterAlignment ==
    \A t \in Threads :
        /\ LongBeforeShort(th[t].blocks)
        /\ Between(th[t]) =>
              LET d == th[t].script[Len(th[t].res)]
              IN  /\ (3 * SHORT_BLOCK <= d.len /\ d.len < 3 * LONG_BLOCK) =>
                        IF d.len - Leading(d) >= 3 * SHORT_BLOCK
                        THEN /\ th[t].blocks # <<>>
                             /\ \A i \in 1..Len(th[t].blocks) :
                                   th[t].blocks[i] = SHORT_BLOCK
                        ELSE th[t].blocks = <<>>
                  /\ d.len < 3 * SHORT_BLOCK => th[t].blocks = <<>>

\* a call of exactly 3*SHORT_BLOCK bytes on a buffer that starts 1 byte
\* after an 8-byte boundary has returned without combining any block
C14_Witness ==
    /\ Between(th[1])
    /\ th[1].script[1].len = 3 * SHORT_BLOCK
    /\ th[1].script[1].base % 8 = 1
    /\ th[1].blocks = <<>>
    /\ th[1].nread = 3 * SHORT_BLOCK

-----------------------------------------------------------------------------
\* the places of a call where bytes are folded eight at a time
WordPlaces ==
    {"long", "long_lane", "long_comb", "short", "short_lane", "short_comb", "words"}

\* C15: no 8-byte read of any call is made at an address that is not a
\* multiple of 8: every step that folds words (one, or one in each of three
\* lanes) starts at a buf that is a multiple of 8; the alignment loop reads
\* only the bytes before the first 8-byte boundary, one per step, and they
\* have all been read when word folding starts; the tail loop starts with
\* fewer than 8 bytes left and reads one byte per step.
C15_AlignedWords ==
    /\ [](\A t \in Threads :
            th[t].fn # "none" =>
                LET c == th[t]
                IN  /\ ~c.unal
                    /\ c.pc = "align" => c.nread <= Leading(Desc(c))
                    /\ c.pc \in WordPlaces =>
                          /\ c.nread >= Leading(Desc(c))
                          /\ c.buf % 8 = 0 \/ c.len = 0
                    /\ c.pc = "tail" => c.len < 8)
    /\ [][\A t \in Threads :
            (th[t].fn # "none" /\ th'[t].nread > th[t].nread) =>
                IF th[t].pc \in {"align", "tail"}
                THEN th'[t].nread = th[t].nread + 1
                ELSE /\ th'[t].nread - th[t].nread \in {8, 24}
                     /\ th[t].buf % 8 = 0]_vars

\* the hardware engine has returned from a call of 17 bytes on a buffer that
\* starts 3 bytes after an 8-byte boundary: 5 single bytes, one aligned word,
\* 4 single bytes
C15_Witness ==
    /\ Between(th[1])
    /\ th[1].script[1].fn = "crc32c_hw"
    /\ th[1].script[1].len = 17
    /\ th[1].script[1].base % 8 = 3
    /\ th[1].nread = 17
    /\ ~th[1].unal

-----------------------------------------------------------------------------
\* C16: the matrix crc32c_zeros_op returns for length 0 is the matrix it
\* returns for length 1, and it is the operator that appends one zero byte:
\* its product with s is the register after eight zero bits.
C16_ZeroLength ==
    (zeros_call.len = 0 /\ zeros_call.pc \in {"op", "zeros", "times", "shifted"}) =>
        /\ zeros_call.op = crc32c_zeros_op(1)
        /\ AppendsZeros(zeros_call.op, 1)
        /\ zeros_call.pc \in {"times", "shifted"} =>
              zeros_call.times = RefByte[zeros_call.vec, 0]

\* the operator built for length 0 has been applied to 0x12345678 and has
\* changed it
C16_Witness ==
    /\ zeros_call.len = 0
    /\ zeros_call.pc = "times"
    /\ zeros_call.vec = <<120, 86, 52, 18>>
    /\ zeros_call.times = RefByte[zeros_call.vec, 0]
    /\ zeros_call.times # zeros_call.vec

-----------------------------------------------------------------------------
\* the addresses of the bytes call descriptor d passes: offsets 0..len-1
Passed(d) == IF d.len = 0 THEN {} ELSE {<<d.base + d.off, d.base + d.off + d.len>>}

\* C17: no call reads a byte outside offsets 0..length-1 or reads a byte
\* twice; a call that has returned has read exactly the bytes at offsets
\* 0..length-1 and its remaining length is 0; the remaining length is never
\* negative, and it decreases only by 1, by 8 or by 3*W, and only when at
\* least that many bytes remain.
C17_ReadBounds ==
    /\ [](\A t \in Threads :
            /\ ~th[t].oob
            /\ ~th[t].dup
            /\ th[t].len >= 0
            /\ Between(th[t]) =>
                  /\ th[t].rd = Passed(th[t].script[Len(th[t].res)])
                  /\ th[t].nread = th[t].script[Len(th[t].res)].len
                  /\ th[t].len = 0)
    /\ [][\A t \in Threads :
            (th[t].fn # "none" /\ th'[t].len # th[t].len) =>
                /\ th[t].len - th'[t].len \in {1, 8, 3 * SHORT_BLOCK, 3 * LONG_BLOCK}
                /\ th[t].len >= th[t].len - th'[t].len
                /\ th'[t].nread - th[t].nread \in {1, 8, 0}
                /\ th'[t].nread = th[t].nread =>
                      th'[t].buf - th[t].buf + WidthOf(th[t]) = th[t].len - th'[t].len]_vars

\* the software engine has returned from a call that took long blocks,
\* short blocks, words and a tail on a misaligned buffer, having read one
\* interval: the whole buffer
C17_Witness ==
    /\ Between(th[1])
    /\ th[1].script[1].fn = "crc32c_sw"
    /\ th[1].script[1].len = AllRegimesLen
    /\ th[1].script[1].base % 8 = 3
    /\ th[1].rd = {<<th[1].script[1].base, th[1].script[1].base + AllRegimesLen>>}
    /\ ~th[1].dup

====
